---- MODULE Spec2Model ----
(***************************************************************************)
(* pdns-data-manager.py: the reconciliation of a list of DNS zones and     *)
(* records against the HTTP API of a PowerDNS server.  One run of main()   *)
(* validates the configuration and then walks the zones in create or in    *)
(* delete mode, one HTTP call per step.  The server and the network are    *)
(* the environment: every call is answered by the server's nominal         *)
(* response or by a fault (a transport failure, an unexpected status).     *)
(***************************************************************************)
EXTENDS Integers, Sequences, FiniteSets

VARIABLES
    op,         \* args.operation: "create" or "delete"
    data,       \* the parsed configuration document (yaml.safe_load)
    server,     \* the names of the zones that exist on the DNS server
    pc,         \* the statement main() is at
    zi,         \* index of the zone the for loop of create()/delete() is at
    ri,         \* index of the record the for loop of *_records() is at
    err_count,  \* create(): the number of zones whose creation failed
    calls,      \* every HTTP call issued in this run, with its outcome
    ret,        \* the value the last zone_exists() call returned
    result,     \* the summary line main() printed ("" while running)
    faults,     \* the number of faults the environment injected so far
    run,        \* the number of the current invocation of main()
    prev        \* the calls of the previous invocation of main()

vars == <<op, data, server, pc, zi, ri, err_count, calls, ret, result, faults, run, prev>>

----------------------------------------------------------------------------
\* Bounds of the model.

\* the longest zones list of a configuration
MaxZones == 3
\* the longest records list of a zone
MaxRecords == 2
\* the most faults the environment injects over the invocations
MaxFaults == 2
\* the longest zones list of a configuration that main() is invoked twice on
MaxZonesTwice == 2

----------------------------------------------------------------------------
\* The configuration documents.

Kinds == {"MASTER", "SLAVE", "NATIVE"}

ZoneNames == <<"a.example.", "b.example.", "c.example.", "d.example.", "e.example.">>

RecordNames == <<"www", "mail", "ftp", "ns", "db">>

ContentPool == <<"1.2.3.4", "5.6.7.8", "9.9.9.9">>

\* record j of a zone: j-1 (mod 3) content entries short of the pool's first
\* entries, disabled on the even positions
RecordSpec(j) ==
    [name     |-> RecordNames[j],
     type     |-> "A",
     ttl      |-> 300,
     disabled |-> (j % 2 = 0),
     content  |-> SubSeq(ContentPool, 1, 2 - ((j - 1) % 3))]

RecordLists == { [j \in 1..n |-> RecordSpec(j)] : n \in 0..MaxRecords }

Nameservers == <<"ns1.example.">>

Masters == <<"192.0.2.1">>

\* a zone's kind and lists: both lists filled, or the list its kind requires
\* left empty (no list is required of a NATIVE zone)
ZoneHeads ==
    { [kind |-> k, nameservers |-> Nameservers, masters |-> Masters] : k \in Kinds }
    \cup { [kind |-> "MASTER", nameservers |-> <<>>, masters |-> Masters],
           [kind |-> "SLAVE", nameservers |-> Nameservers, masters |-> <<>>] }

ZoneSpecs(i) ==
    { [name |-> ZoneNames[i], kind |-> h.kind, nameservers |-> h.nameservers,
       masters |-> h.masters, records |-> rs] :
        h \in ZoneHeads, rs \in RecordLists }

ZoneLists ==
    UNION { { zs \in [1..n -> UNION { ZoneSpecs(i) : i \in 1..n }] :
                \A i \in 1..n : zs[i] \in ZoneSpecs(i) } : n \in 0..MaxZones }

\* the document: empty (yaml.safe_load returns None), or a mapping with the
\* zones key absent, null, or a list
Documents ==
    { [key |-> "none", zones |-> <<>>],
      [key |-> "absent", zones |-> <<>>], [key |-> "null", zones |-> <<>>] }
    \cup { [key |-> "list", zones |-> zs] : zs \in ZoneLists }

\* a read_zones() that returns the zones last first
read_zones_reversed(cfg) ==
    IF cfg.key = "list"
    THEN [i \in 1..Len(cfg.zones) |-> cfg.zones[Len(cfg.zones) + 1 - i]]
    ELSE <<>>

read_zones(cfg) ==
    IF cfg.key = "none" \/ cfg.key = "absent" THEN <<>>
    ELSE IF cfg.key = "null" THEN <<>>
    ELSE cfg.zones

Zones == read_zones(data)

----------------------------------------------------------------------------
\* The HTTP calls and what answers them.

\* a response with a status code, and a call that raised instead of returning
\* one (requests.ConnectionError, requests.Timeout)
Response(code) == [raised |-> FALSE, status_code |-> code]

TransportFailure == [raised |-> TRUE, status_code |-> 0]

\* requests.Response.raise_for_status(): raises HTTPError on 4xx and 5xx
raise_for_status(response) ==
    response.status_code >= 400 /\ response.status_code < 600

\* what a try: requests.x(...); response.raise_for_status() block ends in:
\* TRUE when it took the except branch
Excepted(response) == response.raised \/ raise_for_status(response)

\* zone_exists(): the value returned for the outcome of its GET
zone_exists(response) == IF Excepted(response) THEN FALSE ELSE TRUE

\* the server's answers when nothing goes wrong
NominalGet(name) == IF name \in server THEN Response(200) ELSE Response(404)

NominalPost(name) == IF name \in server THEN Response(409) ELSE Response(201)

NominalPatch(name) == IF name \in server THEN Response(204) ELSE Response(404)

NominalDelete(name) == IF name \in server THEN Response(204) ELSE Response(404)

\* the faults: the call raises, or the answer is not the nominal one
GetFaults == { TransportFailure }

PostFaults == { TransportFailure, Response(500), Response(200) }

PatchFaults == { TransportFailure, Response(422) }

DeleteFaults == { TransportFailure, Response(500) }

Outcomes(nominal, fs) == {nominal} \cup (IF faults < MaxFaults THEN fs ELSE {})

Injected(nominal, response) == IF response = nominal THEN faults ELSE faults + 1

\* the zones on the server after a call: a zone create answered 201 adds the
\* zone, a zone delete answered 2xx removes it
ServerAfterPost(name, response) ==
    IF ~response.raised /\ response.status_code = 201 THEN server \cup {name} ELSE server

ServerAfterDelete(name, response) ==
    IF ~response.raised /\ response.status_code = 204 THEN server \ {name} ELSE server

\* an entry of calls
Call(method, z, r, body, response) ==
    [method |-> method, zone |-> Zones[z].name, z |-> z, r |-> r, data |-> body,
     response |-> response]

----------------------------------------------------------------------------
\* The payloads.

\* a create_zone() whose body carries both lists as they are configured
ZonePayload_configured_lists(zone) ==
    [name |-> zone.name, kind |-> zone.kind, masters |-> zone.masters,
     nameservers |-> zone.nameservers]

\* create_zone(): the body of the zone create call
ZonePayload(zone) ==
    IF zone.kind = "MASTER" \/ zone.kind = "NATIVE"
    THEN [name |-> zone.name, kind |-> zone.kind, masters |-> <<>>,
          nameservers |-> zone.nameservers]
    ELSE [name |-> zone.name, kind |-> zone.kind, masters |-> zone.masters,
          nameservers |-> <<>>]

\* a create_records() whose body carries the first content of the record only
UpsertPayload_first_content_only(record) ==
    [rrsets |-> << [name |-> record.name, type |-> record.type, ttl |-> record.ttl,
                    changetype |-> "REPLACE",
                    records |-> << [content |-> record.content[1],
                                    disabled |-> record.disabled] >>] >>]

\* create_records(): the body of the upsert of a record
UpsertPayload(record) ==
    [rrsets |-> << [name |-> record.name, type |-> record.type, ttl |-> record.ttl,
                    changetype |-> "REPLACE",
                    records |-> [c \in 1..Len(record.content) |->
                                    [content |-> record.content[c],
                                     disabled |-> record.disabled]]] >>]

\* delete_records(): the body of the delete of a record
DeleteRecordPayload(record) ==
    [rrsets |-> << [name |-> record.name, type |-> record.type,
                    changetype |-> "DELETE"] >>]

\* delete_zone(): the body of the zone delete call
DeleteZonePayload(zone) == [name |-> zone.name]

NoBody == [none |-> TRUE]

----------------------------------------------------------------------------
\* Validation.

\* validate_data(): the two rules, for one zone
ValidationError(zone) ==
    \/ zone.kind = "MASTER" /\ Len(zone.nameservers) < 1
    \/ zone.kind = "SLAVE" /\ Len(zone.masters) < 1

\* a validate_data() that returns after its first zone
validate_data_first_zone_only(cfg) ==
    Len(read_zones(cfg)) >= 1 /\ ValidationError(read_zones(cfg)[1])

\* a validate_data() that rejects a configuration with no zone in it
validate_data_requires_zones(cfg) ==
    \/ Len(read_zones(cfg)) = 0
    \/ \E i \in 1..Len(read_zones(cfg)) : ValidationError(read_zones(cfg)[i])

\* validate_data(): TRUE when it raises
validate_data(cfg) ==
    \E i \in 1..Len(read_zones(cfg)) : ValidationError(read_zones(cfg)[i])

----------------------------------------------------------------------------
\* main() and the create pass.

\* a create_zone() that issues the zone create call whatever the probe returned
ShouldCreate_always(exists) == TRUE

\* a create_zone() that never issues the zone create call
ShouldCreate_never(exists) == FALSE

\* create_zone(): the zone create call is issued when the probe returned this
ShouldCreate(exists) == ~exists

\* a delete_records() that issues the record delete call whatever the probe
\* returned
ShouldDeleteRecord_always(exists) == TRUE

\* delete_records(): the record delete call is issued when the probe returned
\* this
ShouldDeleteRecord(exists) == exists

\* a delete_zone() that issues the zone delete call whatever the probe returned
ShouldDeleteZone_always(exists) == TRUE

\* delete_zone(): the zone delete call is issued when the probe returned this
ShouldDeleteZone(exists) == exists

\* a create_zone() that takes every 2xx answer for a created zone
Created_any_2xx(response) == response.status_code >= 200 /\ response.status_code < 300

\* create_zone(): what counts as a created zone
Created(response) == response.status_code = 201

\* create(): the error count after a zone whose create_zone() returned FALSE
CountZoneFailure(n) == n + 1

\* main(): the summary line after create() returned or raised
CreateSummary(n) ==
    IF n > 0 THEN "Create operation failed" ELSE "Create operation successful"

\* create(): the top of the loop over the zones, at zone z with n failures
CreateLoop(z, n) ==
    /\ zi' = z
    /\ ri' = 1
    /\ err_count' = n
    /\ IF z <= Len(Zones)
       THEN pc' = "create_zone" /\ result' = ""
       ELSE pc' = "done" /\ result' = CreateSummary(n)

\* a create_records() whose loop ends at the first upsert that fails
NextRecord_stop_on_error(r, response) ==
    IF Excepted(response) THEN MaxRecords + 1 ELSE r + 1

\* create_records(): the record visited after record r, whose upsert ended in
\* response
NextRecord(r, response) == r + 1

\* a create_records() that counts a failed upsert in the error count of create()
CountRecordFailure_counted(n, response) == IF Excepted(response) THEN n + 1 ELSE n

\* create_records(): the error count of create() after an upsert that ended in
\* response: the except branch logs the error and counts nothing
CountRecordFailure(n, response) == n

\* create_records(): the top of the loop over the records of zone zi, with n
\* failures
CreateRecordsLoop(r, n) ==
    IF r <= Len(Zones[zi].records)
    THEN /\ pc' = "create_records"
         /\ ri' = r
         /\ err_count' = n
         /\ UNCHANGED <<zi, result>>
    ELSE CreateLoop(zi + 1, n)

DeleteLoop(z) ==
    /\ zi' = z
    /\ ri' = 1
    /\ IF z <= Len(Zones)
       THEN /\ pc' = IF Len(Zones[z].records) >= 1 THEN "delete_records" ELSE "delete_zone"
            /\ result' = ""
       ELSE pc' = "done" /\ result' = "Delete operation successful"

\* a delete_zone() whose zone delete call is in no try block
DeleteZoneRaises_no_try(response) == Excepted(response)

\* delete_zone(): TRUE when the exception of the zone delete call leaves
\* delete_zone(); its try block catches every Exception
DeleteZoneRaises(response) == FALSE

\* delete_records(): the top of the loop over the records of zone zi
DeleteRecordsLoop(r) ==
    /\ ri' = r
    /\ pc' = IF r <= Len(Zones[zi].records) THEN "delete_records" ELSE "delete_zone"
    /\ UNCHANGED <<zi, result>>

\* main(): an empty document or validate_data() raises out of main(), or the
\* requested pass starts
Main ==
    /\ pc = "main"
    /\ IF data.key = "none" \/ validate_data(data)
       THEN /\ pc' = "done"
            /\ result' = "Traceback"
            /\ UNCHANGED <<zi, ri, err_count>>
       ELSE IF op = "create"
            THEN CreateLoop(1, 0)
            ELSE DeleteLoop(1) /\ UNCHANGED err_count
    /\ UNCHANGED <<op, data, server, calls, ret, faults, run, prev>>

\* create_zone(): the payload is built and the zone is probed
CreateZone ==
    /\ pc = "create_zone"
    /\ \E response \in Outcomes(NominalGet(Zones[zi].name), GetFaults) :
        /\ calls' = Append(calls, Call("GET", zi, 0, NoBody, response))
        /\ faults' = Injected(NominalGet(Zones[zi].name), response)
        /\ ret' = zone_exists(response)
        /\ IF ShouldCreate(zone_exists(response))
           THEN /\ pc' = "create_zone_post"
                /\ UNCHANGED <<zi, ri, err_count, result>>
           ELSE CreateRecordsLoop(1, err_count)
    /\ UNCHANGED <<op, data, server, run, prev>>

\* create_zone(): the zone create call of a zone the probe did not find; the
\* call is in no try block, so when it raises the exception leaves create()
\* and main() prints the failure
CreateZonePost ==
    /\ pc = "create_zone_post"
    /\ \E response \in Outcomes(NominalPost(Zones[zi].name), PostFaults) :
        /\ calls' = Append(calls, Call("POST", zi, 0, ZonePayload(Zones[zi]), response))
        /\ faults' = Injected(NominalPost(Zones[zi].name), response)
        /\ server' = ServerAfterPost(Zones[zi].name, response)
        /\ IF response.raised
           THEN /\ pc' = "done"
                /\ result' = "Create operation failed"
                /\ UNCHANGED <<zi, ri, err_count>>
           ELSE IF Created(response)
                THEN CreateRecordsLoop(1, err_count)
                ELSE CreateLoop(zi + 1, CountZoneFailure(err_count))
    /\ UNCHANGED <<op, data, ret, run, prev>>

\* create_records(): the upsert of record ri of zone zi
CreateRecords ==
    /\ pc = "create_records"
    /\ \E response \in Outcomes(NominalPatch(Zones[zi].name), PatchFaults) :
        /\ calls' = Append(calls, Call("PATCH", zi, ri,
                                       UpsertPayload(Zones[zi].records[ri]), response))
        /\ faults' = Injected(NominalPatch(Zones[zi].name), response)
        /\ CreateRecordsLoop(NextRecord(ri, response),
                             CountRecordFailure(err_count, response))
    /\ UNCHANGED <<op, data, server, ret, run, prev>>

----------------------------------------------------------------------------
\* The delete pass.

\* delete_records(): record ri of zone zi is logged and the zone is probed
DeleteRecords ==
    /\ pc = "delete_records"
    /\ \E response \in Outcomes(NominalGet(Zones[zi].name), GetFaults) :
        /\ calls' = Append(calls, Call("GET", zi, ri, NoBody, response))
        /\ faults' = Injected(NominalGet(Zones[zi].name), response)
        /\ ret' = zone_exists(response)
        /\ IF ShouldDeleteRecord(zone_exists(response))
           THEN /\ pc' = "delete_records_patch"
                /\ UNCHANGED <<zi, ri, result>>
           ELSE DeleteRecordsLoop(ri + 1)
    /\ UNCHANGED <<op, data, server, err_count, run, prev>>

\* delete_records(): the delete call of record ri of zone zi
DeleteRecordsPatch ==
    /\ pc = "delete_records_patch"
    /\ \E response \in Outcomes(NominalPatch(Zones[zi].name), PatchFaults) :
        /\ calls' = Append(calls, Call("PATCH", zi, ri,
                                       DeleteRecordPayload(Zones[zi].records[ri]), response))
        /\ faults' = Injected(NominalPatch(Zones[zi].name), response)
        /\ DeleteRecordsLoop(ri + 1)
    /\ UNCHANGED <<op, data, server, err_count, ret, run, prev>>

\* delete_zone(): the zone is probed once its records are done
DeleteZone ==
    /\ pc = "delete_zone"
    /\ \E response \in Outcomes(NominalGet(Zones[zi].name), GetFaults) :
        /\ calls' = Append(calls, Call("GET", zi, 0, NoBody, response))
        /\ faults' = Injected(NominalGet(Zones[zi].name), response)
        /\ ret' = zone_exists(response)
        /\ IF ShouldDeleteZone(zone_exists(response))
           THEN /\ pc' = "delete_zone_delete"
                /\ UNCHANGED <<zi, ri, result>>
           ELSE DeleteLoop(zi + 1)
    /\ UNCHANGED <<op, data, server, err_count, run, prev>>

\* delete_zone(): the zone delete call
DeleteZoneDelete ==
    /\ pc = "delete_zone_delete"
    /\ \E response \in Outcomes(NominalDelete(Zones[zi].name), DeleteFaults) :
        /\ calls' = Append(calls, Call("DELETE", zi, 0, DeleteZonePayload(Zones[zi]), response))
        /\ faults' = Injected(NominalDelete(Zones[zi].name), response)
        /\ server' = ServerAfterDelete(Zones[zi].name, response)
        /\ IF DeleteZoneRaises(response)
           THEN /\ pc' = "done"
                /\ result' = "Delete operation failed"
                /\ UNCHANGED <<zi, ri>>
           ELSE DeleteLoop(zi + 1)
    /\ UNCHANGED <<op, data, err_count, ret, run, prev>>

----------------------------------------------------------------------------
\* One invocation of main().

ConfiguredNames(cfg) == { read_zones(cfg)[i].name : i \in 1..Len(read_zones(cfg)) }

Init ==
    /\ op \in {"create", "delete"}
    /\ data \in Documents
    /\ server \in SUBSET ConfiguredNames(data)
    /\ pc = "main"
    /\ zi = 1
    /\ ri = 1
    /\ err_count = 0
    /\ calls = <<>>
    /\ ret = FALSE
    /\ result = ""
    /\ faults = 0
    /\ run = 1
    /\ prev = <<>>

Next ==
    \/ Main
    \/ CreateZone
    \/ CreateZonePost
    \/ CreateRecords
    \/ DeleteRecords
    \/ DeleteRecordsPatch
    \/ DeleteZone
    \/ DeleteZoneDelete

Spec == Init /\ [][Next]_vars

----------------------------------------------------------------------------
\* Two invocations of main() in succession, in create mode, on one
\* configuration and one server.

Rerun ==
    /\ pc = "done"
    /\ run = 1
    /\ run' = run + 1
    /\ prev' = calls
    /\ calls' = <<>>
    /\ pc' = "main"
    /\ zi' = 1
    /\ ri' = 1
    /\ err_count' = 0
    /\ ret' = FALSE
    /\ result' = ""
    /\ UNCHANGED <<op, data, server, faults>>

InitTwice == Init /\ op = "create" /\ Len(read_zones(data)) <= MaxZonesTwice

NextTwice ==
    \/ Main
    \/ CreateZone
    \/ CreateZonePost
    \/ CreateRecords
    \/ Rerun

SpecTwice == InitTwice /\ [][NextTwice]_vars

----------------------------------------------------------------------------
\* One call of zone_exists(), answered by any status code or by none.

ProbeResponses == { TransportFailure } \cup { Response(code) : code \in 200..599 }

ZoneExists ==
    /\ pc = "zone_exists"
    /\ \E response \in ProbeResponses :
        /\ calls' = Append(calls, Call("GET", 1, 0, NoBody, response))
        /\ ret' = zone_exists(response)
    /\ pc' = "returned"
    /\ UNCHANGED <<op, data, server, zi, ri, err_count, result, faults, run, prev>>

InitProbe ==
    /\ op \in {"create", "delete"}
    /\ data \in { d \in Documents : Len(read_zones(d)) = 1 }
    /\ server \in SUBSET ConfiguredNames(data)
    /\ pc = "zone_exists"
    /\ zi = 1
    /\ ri = 1
    /\ err_count = 0
    /\ calls = <<>>
    /\ ret = FALSE
    /\ result = ""
    /\ faults = 0
    /\ run = 1
    /\ prev = <<>>

NextProbe == ZoneExists

SpecProbe == InitProbe /\ [][NextProbe]_vars

----------------------------------------------------------------------------
\* The vocabulary of the properties: what a log of calls shows of zone z.

\* zone z was probed; a probe of it returned TRUE; a probe of it returned FALSE
Probed(log, z) == \E k \in 1..Len(log) : log[k].z = z /\ log[k].method = "GET"

ProbedPresent(log, z) ==
    \E k \in 1..Len(log) :
        log[k].z = z /\ log[k].method = "GET" /\ zone_exists(log[k].response)

ProbedAbsent(log, z) ==
    \E k \in 1..Len(log) :
        log[k].z = z /\ log[k].method = "GET" /\ ~zone_exists(log[k].response)

\* a zone create call was issued for zone z; one was answered 201; one was
\* answered by another status
CreateIssued(log, z) == \E k \in 1..Len(log) : log[k].z = z /\ log[k].method = "POST"

CreateAnswered201(log, z) ==
    \E k \in 1..Len(log) :
        /\ log[k].z = z /\ log[k].method = "POST"
        /\ ~log[k].response.raised /\ log[k].response.status_code = 201

CreateAnsweredOther(log, z) ==
    \E k \in 1..Len(log) :
        /\ log[k].z = z /\ log[k].method = "POST"
        /\ ~log[k].response.raised /\ log[k].response.status_code # 201

\* the record calls (upserts in create mode, deletes in delete mode) of zone z
RecordCalls(log, z) == SelectSeq(log, LAMBDA c : c.z = z /\ c.method = "PATCH")

\* one upsert per record of zone z, in input order, each with the record's payload
FullyUpserted(log, z) ==
    /\ Len(RecordCalls(log, z)) = Len(Zones[z].records)
    /\ \A j \in 1..Len(RecordCalls(log, z)) :
        /\ RecordCalls(log, z)[j].r = j
        /\ RecordCalls(log, z)[j].data = UpsertPayload(Zones[z].records[j])

\* the pass is over and main() has printed its summary line
PassOver == pc = "done" /\ result # "Traceback"

----------------------------------------------------------------------------
\* C1: in create mode, when the create call of zone A is answered by a status
\* other than 201, every zone B after A in the list is still probed, its
\* create call is still issued if the probe did not find it, and if it exists
\* or is created with 201 it gets one upsert per record.
C1_FailedZoneSuppressesNoLaterZone ==
    (op = "create" /\ PassOver) =>
        \A a \in 1..Len(Zones) :
            CreateAnsweredOther(calls, a) =>
                \A b \in (a + 1)..Len(Zones) :
                    /\ Probed(calls, b)
                    /\ ProbedAbsent(calls, b) => CreateIssued(calls, b)
                    /\ (ProbedPresent(calls, b) \/ CreateAnswered201(calls, b))
                            => FullyUpserted(calls, b)

\* C2: in create mode and in delete mode, a call that raises instead of
\* returning a response stops neither the remaining records of its zone nor
\* the remaining zones of the list: when the pass is over, every later zone
\* was probed and, for a record call, every later record of the zone had its
\* call.
C2_TransportFailureStopsNothing ==
    PassOver =>
        \A k \in 1..Len(calls) :
            calls[k].response.raised =>
                /\ \A z \in (calls[k].z + 1)..Len(Zones) : Probed(calls, z)
                /\ calls[k].r >= 1 =>
                     \A r \in (calls[k].r + 1)..Len(Zones[calls[k].z].records) :
                        \E j \in 1..Len(calls) : calls[j].z = calls[k].z /\ calls[j].r = r

\* the configuration has a MASTER zone with no nameserver or a SLAVE zone with
\* no master
HasOffendingZone ==
    \E i \in 1..Len(Zones) :
        \/ Zones[i].kind = "MASTER" /\ Zones[i].nameservers = <<>>
        \/ Zones[i].kind = "SLAVE" /\ Zones[i].masters = <<>>

\* C3: when a zone of the configuration is MASTER with an empty nameservers
\* list or SLAVE with an empty masters list, validation fails and the run
\* issues no HTTP call, wherever the zone is in the list and whichever the
\* operation: no create or delete pass starts, and main() ends in the
\* exception of validate_data().
C3_InvalidConfigurationIssuesNoCall ==
    HasOffendingZone =>
        /\ calls = <<>>
        /\ pc \in {"main", "done"}
        /\ pc = "done" => result = "Traceback"

\* C3's case: main() has ended on a three-zone list whose last zone only is
\* offending
C3_Witness ==
    /\ pc = "done"
    /\ Len(Zones) = 3
    /\ Zones[3].kind = "SLAVE" /\ Zones[3].masters = <<>>
    /\ Zones[1].kind = "MASTER" /\ Zones[1].nameservers # <<>>
    /\ Zones[2].kind = "NATIVE"
    /\ result = "Traceback"


\* zone z existed on the server before the first invocation: it is there, and
\* no create call of either invocation put it there
ExistedBefore(z) ==
    /\ Zones[z].name \in server
    /\ ~CreateAnswered201(prev, z)
    /\ ~CreateAnswered201(calls, z)

\* the payloads of the upserts of zone z, in the order they were sent
UpsertPayloads(log, z) ==
    [j \in 1..Len(RecordCalls(log, z)) |-> RecordCalls(log, z)[j].data]

\* C4, as claimed: when create is run twice in succession on one configuration,
\* the second run issues no zone create call for a zone that already existed on
\* the server, and the upsert payloads sent for that zone are the same
\* sequence in both runs.
C4_SecondRunCreatesNoExistingZone ==
    (run = 2 /\ PassOver) =>
        \A z \in 1..Len(Zones) :
            ExistedBefore(z) =>
                /\ ~CreateIssued(calls, z)
                /\ UpsertPayloads(calls, z) = UpsertPayloads(prev, z)

\* C4, amended: when create is run twice in succession on one configuration,
\* for a zone that already existed on the server and whose probe returns true
\* in both runs, neither run issues a zone create call and the upsert payloads
\* sent for that zone are the same sequence in both runs.
C4_SecondRunCreatesNoProbedZone ==
    (run = 2 /\ PassOver) =>
        \A z \in 1..Len(Zones) :
            (ExistedBefore(z) /\ ProbedPresent(prev, z) /\ ProbedPresent(calls, z)) =>
                /\ ~CreateIssued(prev, z)
                /\ ~CreateIssued(calls, z)
                /\ UpsertPayloads(calls, z) = UpsertPayloads(prev, z)

\* C4's case: the second run is over; the second zone of the list, of two
\* records, was found by the probe in both runs and an upsert of it failed in
\* the first run
C4_Witness ==
    /\ run = 2 /\ PassOver
    /\ Len(Zones) = 2
    /\ Len(Zones[2].records) = 2
    /\ ExistedBefore(2) /\ ProbedPresent(prev, 2) /\ ProbedPresent(calls, 2)
    /\ \E k \in 1..Len(prev) :
        prev[k].z = 2 /\ prev[k].method = "PATCH" /\ Excepted(prev[k].response)

\* C5: in create mode an upsert is issued for a zone only after a probe of the
\* zone returned true or a create call of the zone was answered 201; when the
\* create call is answered by any other status, 2xx or not, no upsert is
\* issued for the zone and the zone is counted in the failure count.
C5_UpsertOnlyAfterPresentOrCreated ==
    op = "create" =>
        /\ \A k \in 1..Len(calls) :
            calls[k].method = "PATCH" =>
                \E j \in 1..(k - 1) :
                    /\ calls[j].z = calls[k].z
                    /\ \/ calls[j].method = "GET" /\ zone_exists(calls[j].response)
                       \/ /\ calls[j].method = "POST"
                          /\ ~calls[j].response.raised
                          /\ calls[j].response.status_code = 201
        /\ \A z \in 1..Len(Zones) :
            CreateAnsweredOther(calls, z) => RecordCalls(calls, z) = <<>>
        /\ err_count = Cardinality({ z \in 1..Len(Zones) : CreateAnsweredOther(calls, z) })

\* C5's case: the pass is over; the create call of the first zone, of two
\* records, was answered 200, and the second zone was created and upserted
C5_Witness ==
    /\ op = "create" /\ PassOver
    /\ Len(Zones) >= 2
    /\ Len(Zones[1].records) = 2
    /\ \E k \in 1..Len(calls) :
        /\ calls[k].z = 1 /\ calls[k].method = "POST"
        /\ calls[k].response = Response(200)
    /\ CreateAnswered201(calls, 2)
    /\ Len(RecordCalls(calls, 2)) >= 1
    /\ err_count = 1

\* C6: in create mode the summary is printed only after every zone of the list
\* has been processed, and it is the failure line when a zone-level failure
\* occurred, whatever succeeded.
C6_FailureReportedAfterEveryZone ==
    (op = "create" /\ PassOver) =>
        /\ \A z \in 1..Len(Zones) : Probed(calls, z)
        /\ (\E z \in 1..Len(Zones) : CreateAnsweredOther(calls, z))
                => result = "Create operation failed"

\* an upsert of zone z ended in the except branch
UpsertFailed(log, z) ==
    \E k \in 1..Len(log) :
        log[k].z = z /\ log[k].method = "PATCH" /\ Excepted(log[k].response)

\* C7: in create mode a zone that exists or was created gets exactly one
\* upsert per record, in input order, whatever the earlier upserts of the zone
\* ended in; after a failed upsert the remaining records and the next zone are
\* still processed.
C7_OneUpsertPerRecord ==
    op = "create" =>
        \A z \in 1..Len(Zones) :
            (ProbedPresent(calls, z) \/ CreateAnswered201(calls, z)) =>
                /\ zi > z => FullyUpserted(calls, z)
                /\ (zi = z /\ pc = "create_records") =>
                        /\ Len(RecordCalls(calls, z)) = ri - 1
                        /\ \A j \in 1..(ri - 1) : RecordCalls(calls, z)[j].r = j
                /\ (zi > z /\ z < Len(Zones) /\ UpsertFailed(calls, z)) =>
                        \/ Probed(calls, z + 1)
                        \/ pc = "create_zone" /\ zi = z + 1

\* C7's case: the pass is over; the first upsert of the first zone raised, the
\* second was answered 422, and the second zone was probed
C7_Witness ==
    /\ op = "create" /\ PassOver
    /\ Len(Zones) >= 2
    /\ Len(RecordCalls(calls, 1)) = 2
    /\ RecordCalls(calls, 1)[1].response = TransportFailure
    /\ RecordCalls(calls, 1)[2].response = Response(422)
    /\ Probed(calls, 2)

\* the zones whose creation failed, and the upserts that failed
ZoneFailures == Cardinality({ z \in 1..Len(Zones) : CreateAnsweredOther(calls, z) })

FailedUpserts ==
    Cardinality({ k \in 1..Len(calls) :
                    calls[k].method = "PATCH" /\ Excepted(calls[k].response) })

\* C8: in create mode a failed upsert is counted: when the loop over the zones
\* has ended, the failure count of the pass holds, beyond the zones that
\* failed, as many failed record operations as upserts failed.
C8_FailedUpsertsCounted ==
    (op = "create" /\ pc = "done" /\ zi > Len(Zones)) =>
        err_count - ZoneFailures = FailedUpserts

\* C9: zone_exists() issues one GET and returns true exactly when the GET is
\* answered by a 2xx status; on any other status, and when the GET raises, it
\* returns false.
C9_ProbeTrueOnlyOn2xx ==
    pc = "returned" =>
        /\ Len(calls) = 1
        /\ calls[1].method = "GET"
        /\ ret <=> /\ ~calls[1].response.raised
                   /\ calls[1].response.status_code >= 200
                   /\ calls[1].response.status_code < 300

\* C10: in delete mode a record delete call is issued only right after a probe
\* of its zone, made for that record, returned true; after a probe that
\* returned false no delete call is issued for the record and the pass goes
\* on to the next record of the zone (to the zone's own probe after the last).
C10_NoRecordDeleteAfterAbsentProbe ==
    op = "delete" =>
        \A k \in 1..Len(calls) :
            /\ calls[k].method = "PATCH" =>
                /\ k > 1
                /\ calls[k - 1].method = "GET"
                /\ calls[k - 1].z = calls[k].z
                /\ calls[k - 1].r = calls[k].r
                /\ zone_exists(calls[k - 1].response)
            /\ (calls[k].method = "GET" /\ calls[k].r >= 1
                    /\ ~zone_exists(calls[k].response)) =>
                /\ \A j \in 1..Len(calls) :
                    ~(calls[j].method = "PATCH" /\ calls[j].z = calls[k].z
                        /\ calls[j].r = calls[k].r)
                /\ IF k < Len(calls)
                   THEN /\ calls[k + 1].method = "GET"
                        /\ calls[k + 1].z = calls[k].z
                        /\ calls[k + 1].r =
                              IF calls[k].r < Len(Zones[calls[k].z].records)
                              THEN calls[k].r + 1 ELSE 0
                   ELSE /\ zi = calls[k].z
                        /\ ri = calls[k].r + 1
                        /\ pc = IF calls[k].r < Len(Zones[calls[k].z].records)
                                THEN "delete_records" ELSE "delete_zone"

\* C10's case: the probe made for the first record of a zone returned false,
\* the probe made for the second returned true and its delete call was issued
C10_Witness ==
    /\ op = "delete"
    /\ Len(calls) >= 3
    /\ calls[1].method = "GET" /\ calls[1].r = 1 /\ ~zone_exists(calls[1].response)
    /\ calls[2].method = "GET" /\ calls[2].r = 2 /\ zone_exists(calls[2].response)
    /\ calls[3].method = "PATCH" /\ calls[3].r = 2


\* the positions in log of the zone probes of zone z in delete mode (the probes
\* made for no record), and of its zone delete calls
ZoneProbes(log, z) ==
    { k \in 1..Len(log) : log[k].z = z /\ log[k].method = "GET" /\ log[k].r = 0 }

ZoneDeletes(log, z) ==
    { k \in 1..Len(log) : log[k].z = z /\ log[k].method = "DELETE" }

\* C11: in delete mode, once a zone is done, every record of it had its probe,
\* whatever the earlier records ended in; the zone was then probed once more,
\* after every record call, and a zone delete call was issued if and only if
\* that probe returned true; no zone delete call of a zone precedes a record
\* delete call of the zone.
C11_ZoneDeletedAfterItsRecords ==
    op = "delete" =>
        /\ \A z \in 1..Len(Zones) :
            zi > z =>
                /\ \A r \in 1..Len(Zones[z].records) :
                    \E k \in 1..Len(calls) :
                        calls[k].z = z /\ calls[k].method = "GET" /\ calls[k].r = r
                /\ Cardinality(ZoneProbes(calls, z)) = 1
                /\ \A p \in ZoneProbes(calls, z) :
                    /\ \A k \in 1..Len(calls) :
                        (calls[k].z = z /\ calls[k].r >= 1) => k < p
                    /\ zone_exists(calls[p].response) <=> ZoneDeletes(calls, z) = {p + 1}
                    /\ ~zone_exists(calls[p].response) => ZoneDeletes(calls, z) = {}
        /\ \A d \in 1..Len(calls) :
            calls[d].method = "DELETE" =>
                \A k \in 1..Len(calls) :
                    (calls[k].method = "PATCH" /\ calls[k].z = calls[d].z) => k < d

\* C11's case: the pass is over; the delete call of the first record of the
\* first zone failed and the probe made for the second record returned false,
\* the zone was deleted all the same; the second zone was not found by its
\* zone probe and got no zone delete call
C11_Witness ==
    /\ op = "delete" /\ PassOver
    /\ Len(Zones) >= 2
    /\ Len(Zones[1].records) = 2
    /\ \E k \in 1..Len(calls) :
        /\ calls[k].z = 1 /\ calls[k].method = "PATCH" /\ calls[k].r = 1
        /\ Excepted(calls[k].response)
    /\ \E k \in 1..Len(calls) :
        /\ calls[k].z = 1 /\ calls[k].method = "GET" /\ calls[k].r = 2
        /\ ~zone_exists(calls[k].response)
    /\ ZoneDeletes(calls, 1) # {}
    /\ ZoneProbes(calls, 2) # {}
    /\ ZoneDeletes(calls, 2) = {}


\* the document has no zone in it: its zones key is absent, null or the empty list
NoZoneConfigured ==
    \/ data.key = "absent"
    \/ data.key = "null"
    \/ data.key = "list" /\ data.zones = <<>>

\* C12: a configuration whose zones key is absent, null or an empty list passes
\* validation; the create pass and the delete pass over it issue no call and
\* report success.
C12_NoZoneIsValidAndSilent ==
    NoZoneConfigured =>
        /\ calls = <<>>
        /\ pc \in {"main", "done"}
        /\ pc = "done" =>
            result = IF op = "create" THEN "Create operation successful"
                     ELSE "Delete operation successful"

\* C12's case: a delete run over a document whose zones key is null is over
C12_Witness ==
    /\ data.key = "null"
    /\ op = "delete"
    /\ pc = "done"
    /\ calls = <<>>

\* C12's other cases: a create run over an empty list, and over no zones key
C12_WitnessEmptyList == data.key = "list" /\ data.zones = <<>> /\ op = "create" /\ pc = "done"

C12_WitnessAbsentKey == data.key = "absent" /\ op = "create" /\ pc = "done"


\* what a call is made of: its method, the zone it is made for, and the record
CallShape(method, z, r) == [method |-> method, z |-> z, r |-> r]

ShapeOf(log) ==
    [k \in 1..Len(log) |-> CallShape(log[k].method, log[k].z, log[k].r)]

\* the calls of a create run in which every zone from z on is probed, created
\* and has each of its records upserted once
RECURSIVE ProbeCreateUpsert(_)
ProbeCreateUpsert(z) ==
    IF z > Len(data.zones) THEN <<>>
    ELSE <<CallShape("GET", z, 0), CallShape("POST", z, 0)>>
         \o [r \in 1..Len(data.zones[z].records) |-> CallShape("PATCH", z, r)]
         \o ProbeCreateUpsert(z + 1)

\* every probe of the log returned false, every zone create call was answered
\* 201 and no upsert failed
AllAbsentAllSucceeded(log) ==
    \A k \in 1..Len(log) :
        /\ log[k].method = "GET" => ~zone_exists(log[k].response)
        /\ log[k].method = "POST" =>
            ~log[k].response.raised /\ log[k].response.status_code = 201
        /\ log[k].method = "PATCH" => ~Excepted(log[k].response)

\* C13: when every zone is absent on probe and every create and upsert call
\* succeeds, the finished create run has issued, zone after zone in input
\* order, one probe, one zone create call and one REPLACE upsert per record,
\* and nothing else, and reports success.
C13_CleanCreateRun ==
    (op = "create" /\ PassOver /\ data.key = "list" /\ AllAbsentAllSucceeded(calls)) =>
        /\ ShapeOf(calls) = ProbeCreateUpsert(1)
        /\ \A k \in 1..Len(calls) :
            calls[k].method = "PATCH" =>
                /\ Len(calls[k].data.rrsets) = 1
                /\ calls[k].data.rrsets[1].changetype = "REPLACE"
        /\ result = "Create operation successful"

\* C13's case: a clean create run over two zones or more, one of them with two
\* records, is over
C13_Witness ==
    /\ op = "create" /\ PassOver /\ data.key = "list"
    /\ AllAbsentAllSucceeded(calls)
    /\ Len(data.zones) >= 2
    /\ \E z \in 1..Len(data.zones) : Len(data.zones[z].records) = 2
    /\ Len(calls) >= 6


\* the positions in log of the upserts of record r of zone z
UpsertsOf(log, z, r) ==
    { k \in 1..Len(log) : log[k].method = "PATCH" /\ log[k].z = z /\ log[k].r = r }

\* C14: the records array of the upsert of a record has as many entries as the
\* content list of the record, entry i carries content i of the list and every
\* entry carries the disabled flag of the record; the record is upserted in
\* one request, which carries one rrset.
C14_UpsertCarriesEveryContent ==
    op = "create" =>
        \A k \in 1..Len(calls) :
            calls[k].method = "PATCH" =>
                LET record == data.zones[calls[k].z].records[calls[k].r]
                    sent == calls[k].data.rrsets[1].records
                IN  /\ Len(calls[k].data.rrsets) = 1
                    /\ Len(sent) = Len(record.content)
                    /\ \A i \in 1..Len(record.content) :
                        /\ sent[i].content = record.content[i]
                        /\ sent[i].disabled = record.disabled
                    /\ UpsertsOf(calls, calls[k].z, calls[k].r) = {k}

\* C14's case: a record of two different contents, enabled, and a record that
\* is disabled have been upserted
C14_Witness ==
    /\ op = "create"
    /\ \E k \in 1..Len(calls) :
        /\ calls[k].method = "PATCH"
        /\ Len(data.zones[calls[k].z].records[calls[k].r].content) = 2
        /\ Len(calls[k].data.rrsets[1].records) = 2
        /\ calls[k].data.rrsets[1].records[1].content
               # calls[k].data.rrsets[1].records[2].content
        /\ ~calls[k].data.rrsets[1].records[1].disabled
    /\ \E k \in 1..Len(calls) :
        /\ calls[k].method = "PATCH"
        /\ data.zones[calls[k].z].records[calls[k].r].disabled
        /\ calls[k].data.rrsets[1].records[1].disabled


\* C15: a delete run that passed validation reports success when it is over,
\* whatever its probes, record delete calls and zone delete calls ended in;
\* before that it reports nothing.
C15_DeleteAlwaysReportsSuccess ==
    (op = "delete" /\ result # "Traceback") =>
        /\ result \in {"", "Delete operation successful"}
        /\ pc = "done" => result = "Delete operation successful"

\* C15's case: the delete run is over and has reported; a record delete call
\* failed, a zone delete call failed and an item was skipped after a probe
\* that returned false
C15_Witness ==
    /\ op = "delete" /\ PassOver
    /\ result = "Delete operation successful"
    /\ \E k \in 1..Len(calls) : calls[k].method = "PATCH" /\ Excepted(calls[k].response)
    /\ \E k \in 1..Len(calls) : calls[k].method = "DELETE" /\ Excepted(calls[k].response)
    /\ \E k \in 1..Len(calls) : calls[k].method = "GET" /\ ~zone_exists(calls[k].response)


\* the place of a call among the calls of its zone: in a create run the probe,
\* the zone create call, then the upserts record after record; in a delete run
\* the probe and the delete call of each record, record after record, then the
\* zone probe and the zone delete call
StepRank(c) ==
    IF op = "create"
    THEN CASE c.method = "GET" -> 0
           [] c.method = "POST" -> 1
           [] OTHER -> 1 + c.r
    ELSE CASE c.method = "GET" /\ c.r >= 1 -> 2 * c.r - 1
           [] c.method = "PATCH" -> 2 * c.r
           [] c.method = "GET" -> 2 * MaxRecords + 1
           [] OTHER -> 2 * MaxRecords + 2

\* C16: the calls are issued zone after zone in the order of the input list,
\* and within a zone in the order of its steps and of its records: of two
\* calls the earlier one is for an earlier zone of the list, or for the same
\* zone and an earlier step; each call is addressed to the zone, and each
\* record call to the record, of the input at that place.
C16_CallsFollowInputOrder ==
    /\ \A k \in 1..Len(calls) :
        /\ calls[k].z \in 1..Len(data.zones)
        /\ calls[k].zone = data.zones[calls[k].z].name
        /\ calls[k].method = "PATCH" =>
            /\ calls[k].r \in 1..Len(data.zones[calls[k].z].records)
            /\ calls[k].data.rrsets[1].name
                   = data.zones[calls[k].z].records[calls[k].r].name
    /\ \A j, k \in 1..Len(calls) :
        j < k =>
            \/ calls[j].z < calls[k].z
            \/ calls[j].z = calls[k].z /\ StepRank(calls[j]) < StepRank(calls[k])

\* C16's case: a create run over three zones has upserted both records of its
\* first zone and has gone on to its last zone
C16_Witness ==
    /\ op = "create" /\ PassOver
    /\ Len(data.zones) = 3
    /\ Len(data.zones[1].records) = 2
    /\ UpsertsOf(calls, 1, 1) # {} /\ UpsertsOf(calls, 1, 2) # {}
    /\ \E k \in 1..Len(calls) : calls[k].z = 2 /\ calls[k].method = "POST"
    /\ \E k \in 1..Len(calls) : calls[k].z = 3

\* C16's case in a delete run: the records of the first zone and the zone were
\* sent their delete calls, then the second zone was probed
C16_WitnessDelete ==
    /\ op = "delete" /\ PassOver
    /\ Len(data.zones) >= 2
    /\ Len(data.zones[1].records) = 2
    /\ UpsertsOf(calls, 1, 1) # {} /\ UpsertsOf(calls, 1, 2) # {}
    /\ ZoneDeletes(calls, 1) # {}
    /\ \E k \in 1..Len(calls) : calls[k].z = 2


\* the state of zone z in a create run, read off the calls made for it and the
\* place of the loop of create(): a zone whose create call raised is counted
\* with the zones whose create call was refused, its records being skipped
ZoneState(z) ==
    IF ~Probed(calls, z) THEN "NotChecked"
    ELSE IF CreateIssued(calls, z)
         THEN IF CreateAnswered201(calls, z)
              THEN IF zi > z THEN "RecordsReconciled" ELSE "Created"
              ELSE "RecordsSkipped"
         ELSE IF ProbedPresent(calls, z)
              THEN IF zi > z THEN "RecordsReconciled" ELSE "Exists"
              ELSE "Missing"

TerminalStates == {"RecordsReconciled", "RecordsSkipped"}

\* the states the per-zone machine reaches from state s in any number of moves
MachineReaches(s) ==
    CASE s = "NotChecked" ->
            {"NotChecked", "Exists", "Missing", "Created", "CreateFailed",
             "RecordsReconciled", "RecordsSkipped"}
      [] s = "Exists" -> {"Exists", "RecordsReconciled"}
      [] s = "Missing" ->
            {"Missing", "Created", "CreateFailed", "RecordsReconciled", "RecordsSkipped"}
      [] s = "Created" -> {"Created", "RecordsReconciled"}
      [] s = "CreateFailed" -> {"CreateFailed", "RecordsSkipped"}
      [] OTHER -> {s}

\* C17: in a create run every zone starts in NotChecked and, when the run is
\* over, every zone of the list is in one of the terminal states
\* RecordsReconciled and RecordsSkipped, whatever the calls ended in.
C17_EveryZoneReachesATerminalState ==
    op = "create" =>
        /\ pc = "main" => \A z \in 1..Len(Zones) : ZoneState(z) = "NotChecked"
        /\ PassOver => \A z \in 1..Len(Zones) : ZoneState(z) \in TerminalStates

\* the part of C17 the program keeps: a step of a create run moves each zone
\* along the moves of the machine only
C17_ZonesMoveAlongTheMachine ==
    [][op = "create" =>
        \A z \in 1..Len(Zones) : ZoneState(z)' \in MachineReaches(ZoneState(z))]_vars

\* the run is over and a zone of the list was never probed
C17_ZoneLeftUnchecked ==
    /\ op = "create" /\ PassOver
    /\ \E z \in 1..Len(Zones) : ZoneState(z) = "NotChecked"
    /\ \E k \in 1..Len(calls) : calls[k].method = "POST" /\ calls[k].response.raised


\* the call issued last
LastCall == calls[Len(calls)]

\* the probe made last found nothing and the delete run has gone on without
\* the delete call of the item probed for
SkippedAfterProbe ==
    /\ op = "delete"
    /\ calls # <<>>
    /\ LastCall.method = "GET"
    /\ pc \notin {"delete_records_patch", "delete_zone_delete"}

\* C18: a zone that is on the server is sent a zone create call only after a
\* probe of it that ended in an error, and a record or zone that is on the
\* server is left without its delete call only after such a probe; a zone
\* whose create call is not answered 201 has no record upserted and the
\* finished run reports failure.
C18_ProbeErrorIsTakenForAbsence ==
    /\ (op = "create" /\ pc = "create_zone_post" /\ Zones[zi].name \in server) =>
        /\ calls # <<>>
        /\ LastCall.method = "GET" /\ LastCall.z = zi
        /\ Excepted(LastCall.response)
    /\ (op = "create" /\ PassOver) =>
        \A z \in 1..Len(Zones) :
            (CreateIssued(calls, z) /\ ~CreateAnswered201(calls, z)) =>
                /\ RecordCalls(calls, z) = <<>>
                /\ result = "Create operation failed"
    /\ (SkippedAfterProbe /\ LastCall.zone \in server) => Excepted(LastCall.response)

\* C18's case in a create run: no zone was created by the run, a zone of the
\* server had its probe end in an error and was sent a zone create call that
\* the server refused; its records were skipped and the run reports failure
C18_Witness ==
    /\ op = "create" /\ PassOver
    /\ \A z \in 1..Len(Zones) : ~CreateAnswered201(calls, z)
    /\ \E k \in 1..(Len(calls) - 1) :
        /\ calls[k].method = "GET" /\ calls[k].response.raised
        /\ calls[k].zone \in server
        /\ calls[k + 1].method = "POST" /\ calls[k + 1].z = calls[k].z
        /\ ~calls[k + 1].response.raised /\ calls[k + 1].response.status_code = 409
        /\ Len(Zones[calls[k].z].records) >= 1
        /\ RecordCalls(calls, calls[k].z) = <<>>
    /\ result = "Create operation failed"

\* C18's case in a delete run: no zone was deleted by the run; a record of a
\* zone of the server, and a zone of the server, had their probes end in an
\* error and were not sent their delete calls
C18_WitnessDelete ==
    /\ op = "delete" /\ PassOver
    /\ \A k \in 1..Len(calls) : calls[k].method # "DELETE"
    /\ \E k \in 1..Len(calls) :
        /\ calls[k].method = "GET" /\ calls[k].r >= 1 /\ calls[k].response.raised
        /\ calls[k].zone \in server
        /\ UpsertsOf(calls, calls[k].z, calls[k].r) = {}
    /\ \E k \in 1..Len(calls) :
        /\ calls[k].method = "GET" /\ calls[k].r = 0 /\ calls[k].response.raised
        /\ calls[k].zone \in server


\* C19: the body of every zone create call has the masters key and the
\* nameservers key; for a zone of kind MASTER or NATIVE masters is the empty
\* list and nameservers the configured list, for a zone of any other kind
\* nameservers is the empty list and masters the configured list.
C19_UnusedSideSentEmpty ==
    \A k \in 1..Len(calls) :
        calls[k].method = "POST" =>
            LET zone == data.zones[calls[k].z]
                body == calls[k].data
            IN  /\ {"masters", "nameservers"} \subseteq DOMAIN body
                /\ body.kind = zone.kind
                /\ IF zone.kind \in {"MASTER", "NATIVE"}
                   THEN body.masters = <<>> /\ body.nameservers = zone.nameservers
                   ELSE body.nameservers = <<>> /\ body.masters = zone.masters

\* C19's case: a zone create call was issued for a zone of kind MASTER or
\* NATIVE that is configured with masters, and one for a zone of kind SLAVE
\* that is configured with nameservers
C19_Witness ==
    /\ \E k \in 1..Len(calls) :
        /\ calls[k].method = "POST"
        /\ data.zones[calls[k].z].kind \in {"MASTER", "NATIVE"}
        /\ data.zones[calls[k].z].masters # <<>>
        /\ calls[k].data.masters = <<>>
    /\ \E k \in 1..Len(calls) :
        /\ calls[k].method = "POST"
        /\ data.zones[calls[k].z].kind = "SLAVE"
        /\ data.zones[calls[k].z].nameservers # <<>>
        /\ calls[k].data.nameservers = <<>>


\* C20: a finished create run in which every zone was found by its probe or
\* was created with status 201 reports success, whatever its upserts ended in.
C20_RecordFailuresAreNotReported ==
    (op = "create" /\ PassOver
        /\ \A z \in 1..Len(Zones) : ProbedPresent(calls, z) \/ CreateAnswered201(calls, z)) =>
        result = "Create operation successful"

\* C20's case: a create run has found one of its zones and created another,
\* every upsert it made failed, there were two of them, and it reports success
C20_Witness ==
    /\ op = "create" /\ PassOver
    /\ \E z \in 1..Len(Zones) : ProbedPresent(calls, z)
    /\ \E z \in 1..Len(Zones) : CreateAnswered201(calls, z)
    /\ \A z \in 1..Len(Zones) : ProbedPresent(calls, z) \/ CreateAnswered201(calls, z)
    /\ Cardinality({ k \in 1..Len(calls) : calls[k].method = "PATCH" }) = 2
    /\ \A k \in 1..Len(calls) : calls[k].method = "PATCH" => Excepted(calls[k].response)
    /\ result = "Create operation successful"

====
